---- MODULE Spec2Model ----
(***************************************************************************)
(* Model of the tic-tac-toe move selector of src/src/hooks/useAIService.ts *)
(* (useAIService, minimax with alpha-beta pruning, checkWinner and the     *)
(* evaluation heuristic), of the module-level state it keeps (DEPTH,       *)
(* PLAYER_CURRENT, PLAYER_OPPONENT) and of the caller that alternates      *)
(* opponent moves with calls of useAIService.                              *)
(***************************************************************************)
EXTENDS Integers, Sequences, FiniteSets, TLC

VARIABLES
    pieces,           \* the caller's PiecesMapType: the set of its move records
    isFirstAI,        \* the caller's game mode, the second argument of useAIService
    DEPTH,            \* let DEPTH (line 25)
    PLAYER_CURRENT,   \* let PLAYER_CURRENT (line 26)
    PLAYER_OPPONENT,  \* let PLAYER_OPPONENT (line 27)
    ret,              \* what the last operation returned
    calls,            \* completed calls of useAIService in this session
    depth0            \* DEPTH at the first useAIService call of the current game

vars == <<pieces, isFirstAI, DEPTH, PLAYER_CURRENT, PLAYER_OPPONENT, ret, calls, depth0>>

----------------------------------------------------------------------------
(* Bounds of the model *)

\* most empty cells of a position handed to useAIService as an input
MaxEmpty == 7
\* largest Session Depth Counter drawn with such a position
MaxDepth == 3
\* most empty cells of a board on which minimax is entered directly
MaxEmptyMM == 3
\* the most empty cells of a won board minimax is entered on
MaxEmptyWon == 4
\* largest Session Depth Counter a game from the empty board starts with
MaxStartDepth == 9
\* cap on the completed calls of one session
MaxCalls == 5

----------------------------------------------------------------------------
(* Values *)

EMPTY_CELL == "-"

\* the initial value of DEPTH
InitialDepth == 2

\* emptyCells.length <= 5: the short-circuit's threshold
ShortCircuitMax == 5

\* JavaScript's Infinity: larger than any score evaluateBoard can return
Infinity == 1000000

\* an absent row or col of bestMoveProps (row?: number, col?: number)
Undefined == -1

\* the value of PLAYER_CURRENT and PLAYER_OPPONENT before the first call
Unset == "undefined"

Markers == {"X", "O"}

Idx == 0..2

\* the cells in the order board.forEach / rowValue.forEach visits them
AllCells ==
    << [row |-> 0, col |-> 0], [row |-> 0, col |-> 1], [row |-> 0, col |-> 2],
       [row |-> 1, col |-> 0], [row |-> 1, col |-> 1], [row |-> 1, col |-> 2],
       [row |-> 2, col |-> 0], [row |-> 2, col |-> 1], [row |-> 2, col |-> 2] >>

winningCombinations ==
    << << <<0, 0>>, <<0, 1>>, <<0, 2>> >>,
       << <<1, 0>>, <<1, 1>>, <<1, 2>> >>,
       << <<2, 0>>, <<2, 1>>, <<2, 2>> >>,
       << <<0, 0>>, <<1, 0>>, <<2, 0>> >>,
       << <<0, 1>>, <<1, 1>>, <<2, 1>> >>,
       << <<0, 2>>, <<1, 2>>, <<2, 2>> >>,
       << <<0, 0>>, <<1, 1>>, <<2, 2>> >>,
       << <<0, 2>>, <<1, 1>>, <<2, 0>> >> >>

Max(a, b) == IF a >= b THEN a ELSE b

Min(a, b) == IF a <= b THEN a ELSE b

\* the module-level variables a search reads, as one value
Globals(current, opponent, depth) ==
    [PLAYER_CURRENT |-> current, PLAYER_OPPONENT |-> opponent, DEPTH |-> depth]

----------------------------------------------------------------------------
(* convertToBoard, getAvailableBoards *)

\* the content written at (row, col) by for (const values of boards), '-' when no
\* record names the cell
CellOf(boards, row, col) ==
    IF \E p \in boards : p.direction = <<row, col>>
    THEN (CHOOSE p \in boards : p.direction = <<row, col>>).content
    ELSE "-"

\* a row of the dense board, indexed 0..2
RowOf(a, b, c) == (0 :> a @@ 1 :> b @@ 2 :> c)

\* convertToBoard writing board[col][row] = content
convertToBoard_Transposed(boards) ==
    RowOf(RowOf(CellOf(boards, 0, 0), CellOf(boards, 1, 0), CellOf(boards, 2, 0)),
          RowOf(CellOf(boards, 0, 1), CellOf(boards, 1, 1), CellOf(boards, 2, 1)),
          RowOf(CellOf(boards, 0, 2), CellOf(boards, 1, 2), CellOf(boards, 2, 2)))

\* Array.from(Array(3), () => new Array(3).fill('-')), then one write per record
convertToBoard(boards) ==
    RowOf(RowOf(CellOf(boards, 0, 0), CellOf(boards, 0, 1), CellOf(boards, 0, 2)),
          RowOf(CellOf(boards, 1, 0), CellOf(boards, 1, 1), CellOf(boards, 1, 2)),
          RowOf(CellOf(boards, 2, 0), CellOf(boards, 2, 1), CellOf(boards, 2, 2)))

\* getAvailableBoards with the two forEach loops exchanged: column by column
getAvailableBoards_ColumnMajor(board) ==
    SelectSeq([i \in 1..9 |-> [row |-> (i - 1) % 3, col |-> (i - 1) \div 3]],
              LAMBDA m : board[m.row][m.col] = EMPTY_CELL)

getAvailableBoards(board) ==
    SelectSeq(AllCells, LAMBDA m : board[m.row][m.col] = EMPTY_CELL)

\* board[row][col] = marker
SetCell(board, row, col, marker) ==
    [board EXCEPT ![row][col] = marker]

----------------------------------------------------------------------------
(* checkWinner, isGameOver *)

\* the test of line 149: playerA is a non-empty string ('-' included), so it is truthy
ComboMatches(board, combination) ==
    LET playerA == board[combination[1][1]][combination[1][2]]
        playerB == board[combination[2][1]][combination[2][2]]
        playerC == board[combination[3][1]][combination[3][2]]
    IN  playerA # "" /\ playerA = playerB /\ playerA = playerC

RECURSIVE checkWinnerFrom(_, _)
checkWinnerFrom(board, i) ==
    IF i > Len(winningCombinations) THEN EMPTY_CELL
    ELSE IF ComboMatches(board, winningCombinations[i])
         THEN board[winningCombinations[i][1][1]][winningCombinations[i][1][2]]
         ELSE checkWinnerFrom(board, i + 1)

checkWinner(board) == checkWinnerFrom(board, 1)

isGameOver(board) == checkWinner(board) # EMPTY_CELL

----------------------------------------------------------------------------
(* countsPlayer, nextPlayerIsWin, evaluateBoard *)

Pow10(n) == CASE n = 0 -> 1 [] n = 1 -> 10 [] n = 2 -> 100 [] n = 3 -> 1000

\* the increments addToCounts makes for the cell (row, col): 1 when player holds it
Held(board, player, row, col) == IF board[row][col] = player THEN 1 ELSE 0

\* (counts[property] as number[]).reduce((acc, count) => acc + Math.pow(10, count), 0)
RECURSIVE calculateScore(_, _)
calculateScore(property, n) ==
    IF n = 0 THEN 0 ELSE calculateScore(property, n - 1) + Pow10(property[n])

\* the counts object after the two for loops of lines 207-226
countsOf(board, player) ==
    [horizontal |->
         << Held(board, player, 0, 0) + Held(board, player, 0, 1)
                + Held(board, player, 0, 2),
            Held(board, player, 1, 0) + Held(board, player, 1, 1)
                + Held(board, player, 1, 2),
            Held(board, player, 2, 0) + Held(board, player, 2, 1)
                + Held(board, player, 2, 2) >>,
     vertical |->
         << Held(board, player, 0, 0) + Held(board, player, 1, 0)
                + Held(board, player, 2, 0),
            Held(board, player, 0, 1) + Held(board, player, 1, 1)
                + Held(board, player, 2, 1),
            Held(board, player, 0, 2) + Held(board, player, 1, 2)
                + Held(board, player, 2, 2) >>,
     diagonal |->
         << Held(board, player, 0, 0) + Held(board, player, 1, 1)
                + Held(board, player, 2, 2),
            Held(board, player, 0, 2) + Held(board, player, 1, 1)
                + Held(board, player, 2, 0) >>,
     cornerControl |->
         Held(board, player, 0, 0) + Held(board, player, 0, 2)
             + Held(board, player, 2, 0) + Held(board, player, 2, 2),
     centerControl |-> Held(board, player, 1, 1)]

\* the score of lines 238-242 for a counts object
scoreOf(counts) ==
    calculateScore(counts.horizontal, 3)
    + calculateScore(counts.vertical, 3)
    + calculateScore(counts.diagonal, 2)
    + (5 * counts.cornerControl)
    + (10 * counts.centerControl)

countsPlayer(board, player) ==
    LET counts == countsOf(board, player)
    IN  [counts |-> counts, score |-> scoreOf(counts)]

Includes(arr, v) == \E i \in 1..Len(arr) : arr[i] = v

nextPlayerIsWin(countsSubArr, depthCounter) ==
    IF depthCounter % 2 = 0 /\ (Includes(countsSubArr, 2) \/ Includes(countsSubArr, 3))
    THEN 50
    ELSE IF depthCounter % 2 # 0
            /\ (Includes(countsSubArr, -2) \/ Includes(countsSubArr, -3))
         THEN -50
         ELSE 0

\* join('') and split('') of the eight counts: every count is one digit (0..3), so
\* the characters of the joined string are the counts in order
FlattenCounts(counts) == counts.horizontal \o counts.vertical \o counts.diagonal

\* countsCurrentArr.map((count, index) => Number(count) - Number(countsOpponentArr[index]))
countsSub(countsCurrentArr, countsOpponentArr) ==
    [index \in 1..Len(countsCurrentArr) |->
        countsCurrentArr[index] - countsOpponentArr[index]]

\* evaluateBoard adding the opponent's score instead of subtracting it
evaluateBoard_OpponentAdded(board, G) ==
    LET cur == countsPlayer(board, G.PLAYER_CURRENT)
        opp == countsPlayer(board, G.PLAYER_OPPONENT)
        countsSubArr == countsSub(FlattenCounts(cur.counts), FlattenCounts(opp.counts))
        score == cur.score + nextPlayerIsWin(countsSubArr, G.DEPTH)
    IN  score + opp.score

evaluateBoard(board, G) ==
    LET cur == countsPlayer(board, G.PLAYER_CURRENT)
        opp == countsPlayer(board, G.PLAYER_OPPONENT)
        countsCurrentArr == FlattenCounts(cur.counts)
        countsOpponentArr == FlattenCounts(opp.counts)
        countsSubArr == countsSub(countsCurrentArr, countsOpponentArr)
        score == cur.score + nextPlayerIsWin(countsSubArr, G.DEPTH)
    IN  score - opp.score

----------------------------------------------------------------------------
(* minimax *)

\* the comparisons of lines 87 and 103 written >= and <=: a tie replaces the move
Improves_OnTies(maximizingPlayer, currentMoce, bestMove) ==
    IF maximizingPlayer THEN currentMoce.score >= bestMove.score
    ELSE currentMoce.score <= bestMove.score

\* line 87 (maximizing) and line 103 (minimizing): the strict comparison that
\* keeps the earlier move on a tie
Improves(maximizingPlayer, currentMoce, bestMove) ==
    IF maximizingPlayer THEN currentMoce.score > bestMove.score
    ELSE currentMoce.score < bestMove.score

\* the break taken on alpha <= beta
Cutoff_Inverted(alpha, beta) == alpha <= beta

\* lines 89 and 105: if (alpha >= beta) break
Cutoff(alpha, beta) == alpha >= beta

\* the base case taken with one empty cell left
BaseCase_OneLeft(board, depth, emptyCells) ==
    depth = 0 \/ isGameOver(board) \/ Len(emptyCells) <= 1

\* line 72: depth === 0 || isGameOver(board) || emptyCells.length === 0
BaseCase(board, depth, emptyCells) ==
    depth = 0 \/ isGameOver(board) \/ Len(emptyCells) = 0

RECURSIVE minimax(_, _, _, _, _, _)

\* the for loop of lines 80-92 (maximizing) and 96-108 (minimizing) from its i-th
\* move on: the move is placed, searched and undone, bestMove and alpha (or beta)
\* are updated, and the loop breaks on the cutoff
RECURSIVE minimaxLoop(_, _, _, _, _, _, _, _, _)
minimaxLoop(board, maximizingPlayer, emptyCells, i, alpha, beta, depth, bestMove, G) ==
    IF i > Len(emptyCells) THEN bestMove
    ELSE
        LET row == emptyCells[i].row
            col == emptyCells[i].col
            marker == IF maximizingPlayer THEN G.PLAYER_CURRENT ELSE G.PLAYER_OPPONENT
            result == minimax(SetCell(board, row, col, marker), ~maximizingPlayer,
                              alpha, beta, depth - 1, G)
            currentMoce == [row |-> row, col |-> col, score |-> result.score]
            newBest == IF Improves(maximizingPlayer, currentMoce, bestMove)
                       THEN currentMoce ELSE bestMove
            newAlpha == IF maximizingPlayer THEN Max(alpha, newBest.score) ELSE alpha
            newBeta == IF maximizingPlayer THEN beta ELSE Min(beta, newBest.score)
        IN  IF Cutoff(newAlpha, newBeta) THEN newBest
            ELSE minimaxLoop(board, maximizingPlayer, emptyCells, i + 1,
                             newAlpha, newBeta, depth, newBest, G)

minimax(board, maximizingPlayer, alpha, beta, depth, G) ==
    LET emptyCells == getAvailableBoards(board)
    IN  IF BaseCase(board, depth, emptyCells)
        THEN [row |-> Undefined, col |-> Undefined, score |-> evaluateBoard(board, G)]
        ELSE minimaxLoop(board, maximizingPlayer, emptyCells, 1, alpha, beta, depth,
                         [row |-> Undefined, col |-> Undefined,
                          score |-> IF maximizingPlayer THEN -Infinity ELSE Infinity],
                         G)

----------------------------------------------------------------------------
(* usePieces and useAIService *)

\* usePieces(board, 3, 3, [row, col]) is imported from ./usePieces, which is not
\* among the sources.  It is modelled as the win check on the move already placed
\* at (row, col): some line through that cell holds the cell's marker three times.
usePieces(board, row, col) ==
    \E i \in 1..Len(winningCombinations) :
        /\ \E k \in 1..3 : winningCombinations[i][k] = <<row, col>>
        /\ \A k \in 1..3 :
              board[winningCombinations[i][k][1]][winningCombinations[i][k][2]]
                  = board[row][col]

\* the short-circuit entered with fewer than 5 empty cells only
ShortCircuitIndex_Below(newBoads, emptyCells, current) ==
    IF Len(emptyCells) < ShortCircuitMax
       /\ \E i \in 1..Len(emptyCells) :
             usePieces(SetCell(newBoads, emptyCells[i].row, emptyCells[i].col, current),
                       emptyCells[i].row, emptyCells[i].col)
    THEN CHOOSE i \in 1..Len(emptyCells) :
            /\ usePieces(SetCell(newBoads, emptyCells[i].row, emptyCells[i].col, current),
                         emptyCells[i].row, emptyCells[i].col)
            /\ \A j \in 1..(i - 1) :
                  ~usePieces(SetCell(newBoads, emptyCells[j].row, emptyCells[j].col, current),
                             emptyCells[j].row, emptyCells[j].col)
    ELSE 0

\* lines 44-53: the first empty cell, in the order of emptyCells, at which the
\* win check succeeds; 0 when the loop is not entered or runs out
ShortCircuitIndex(newBoads, emptyCells, current) ==
    IF Len(emptyCells) <= ShortCircuitMax
       /\ \E i \in 1..Len(emptyCells) :
             usePieces(SetCell(newBoads, emptyCells[i].row, emptyCells[i].col, current),
                       emptyCells[i].row, emptyCells[i].col)
    THEN CHOOSE i \in 1..Len(emptyCells) :
            /\ usePieces(SetCell(newBoads, emptyCells[i].row, emptyCells[i].col, current),
                         emptyCells[i].row, emptyCells[i].col)
            /\ \A j \in 1..(i - 1) :
                  ~usePieces(SetCell(newBoads, emptyCells[j].row, emptyCells[j].col, current),
                             emptyCells[j].row, emptyCells[j].col)
    ELSE 0

\* the whole of useAIService: the value returned, the path taken and the new
\* values of the three module-level variables
useAIService(board, firstAI, depthCounter) ==
    LET newBoads == convertToBoard(board)
        current == IF firstAI THEN "X" ELSE "O"
        opponent == IF ~firstAI THEN "X" ELSE "O"
        emptyCells == getAvailableBoards(newBoads)
        k == ShortCircuitIndex(newBoads, emptyCells, current)
        bestMove == minimax(newBoads, TRUE, -Infinity, Infinity, depthCounter,
                            Globals(current, opponent, depthCounter))
    IN  IF k > 0
        THEN [row |-> emptyCells[k].row, col |-> emptyCells[k].col,
              path |-> "shortcircuit", DEPTH |-> depthCounter,
              PLAYER_CURRENT |-> current, PLAYER_OPPONENT |-> opponent]
        ELSE CHOOSE r \in {[row |-> m.row, col |-> m.col,
                             path |-> "minimax", DEPTH |-> depthCounter + 1,
                             PLAYER_CURRENT |-> current, PLAYER_OPPONENT |-> opponent] :
                            m \in {bestMove}} : TRUE

----------------------------------------------------------------------------
(* The caller: the game around useAIService *)

\* some triple holds marker on all three cells
LineOf(board, marker) ==
    \E i \in 1..Len(winningCombinations) :
        \A k \in 1..3 :
            board[winningCombinations[i][k][1]][winningCombinations[i][k][2]] = marker

\* the caller stops the game at a completed line or a full board
GameEnded(board) ==
    LineOf(board, "X") \/ LineOf(board, "O") \/ Len(getAvailableBoards(board)) = 0

\* X moves first: the AI holds X exactly when it moves first
AIMarker == IF isFirstAI THEN "X" ELSE "O"

OpponentMarker == IF isFirstAI THEN "O" ELSE "X"

AITurn == (Cardinality(pieces) % 2 = 0) = isFirstAI

NoReturn == [op |-> "none"]

\* the opponent places its marker on an empty cell
OpponentMove(row, col) ==
    /\ ~GameEnded(convertToBoard(pieces))
    /\ ~AITurn
    /\ convertToBoard(pieces)[row][col] = EMPTY_CELL
    /\ pieces' = pieces \cup {[direction |-> <<row, col>>, content |-> OpponentMarker]}
    /\ ret' = [op |-> "opponent", row |-> row, col |-> col]
    /\ UNCHANGED <<isFirstAI, DEPTH, PLAYER_CURRENT, PLAYER_OPPONENT, calls, depth0>>

\* the caller calls useAIService on its position and places the AI's marker on the
\* cell returned
AIMove ==
    /\ ~GameEnded(convertToBoard(pieces))
    /\ AITurn
    /\ \E r \in {useAIService(pieces, isFirstAI, DEPTH)} :
           /\ DEPTH' = r.DEPTH
           /\ PLAYER_CURRENT' = r.PLAYER_CURRENT
           /\ PLAYER_OPPONENT' = r.PLAYER_OPPONENT
           /\ ret' = [op |-> "useAIService", row |-> r.row, col |-> r.col,
                      path |-> r.path, board |-> convertToBoard(pieces), depth |-> DEPTH]
           /\ pieces' = pieces \cup
                  {[direction |-> <<r.row, r.col>>, content |-> r.PLAYER_CURRENT]}
    /\ calls' = calls + 1
    /\ depth0' = IF depth0 = 0 THEN DEPTH ELSE depth0
    /\ UNCHANGED isFirstAI

\* a new game in the same session: the module is not reloaded, DEPTH stays
NewGame(first) ==
    /\ GameEnded(convertToBoard(pieces))
    /\ pieces' = {}
    /\ isFirstAI' = first
    /\ depth0' = 0
    /\ ret' = [op |-> "newGame"]
    /\ UNCHANGED <<DEPTH, PLAYER_CURRENT, PLAYER_OPPONENT, calls>>

\* a session: the module is loaded, games follow one another
Init ==
    /\ pieces = {}
    /\ isFirstAI \in BOOLEAN
    /\ DEPTH = InitialDepth
    /\ PLAYER_CURRENT = Unset
    /\ PLAYER_OPPONENT = Unset
    /\ ret = NoReturn
    /\ calls = 0
    /\ depth0 = 0

Next ==
    \/ \E row \in Idx, col \in Idx : OpponentMove(row, col)
    \/ (calls < MaxCalls /\ AIMove)
    \/ \E first \in BOOLEAN : NewGame(first)

Spec == Init /\ [][Next]_vars

\* one game from the empty board that the opponent opens, entered with the counter
\* some earlier calls of the session left
InitGame ==
    /\ pieces = {}
    /\ isFirstAI = FALSE
    /\ DEPTH \in InitialDepth..MaxStartDepth
    /\ PLAYER_CURRENT = Unset
    /\ PLAYER_OPPONENT = Unset
    /\ ret = NoReturn
    /\ calls = DEPTH - InitialDepth
    /\ depth0 = 0

NextGame ==
    \/ \E row \in Idx, col \in Idx : OpponentMove(row, col)
    \/ AIMove

SpecGame == InitGame /\ [][NextGame]_vars

----------------------------------------------------------------------------
(* Positions as inputs *)

Boards == [Idx -> [Idx -> {"X", "O", EMPTY_CELL}]]

CountMarker(board, marker) ==
    Cardinality({rc \in Idx \X Idx : board[rc[1]][rc[2]] = marker})

\* markers alternate and X moves first
Alternating(board) ==
    CountMarker(board, "X") - CountMarker(board, "O") \in {0, 1}

\* the caller's Map for a dense board: one record per occupied cell
ToPieces(board) ==
    {[direction |-> rc, content |-> board[rc[1]][rc[2]]] :
        rc \in {q \in Idx \X Idx : board[q[1]][q[2]] # EMPTY_CELL}}

\* the positions with alternating markers and between lo and hi empty cells
Positions(lo, hi) ==
    {ToPieces(b) : b \in {c \in Boards :
        /\ Alternating(c)
        /\ CountMarker(c, EMPTY_CELL) >= lo
        /\ CountMarker(c, EMPTY_CELL) <= hi}}

----------------------------------------------------------------------------
(* useAIService called on a position where the AI is to move *)

CallUseAIService ==
    /\ ret.op = "none"
    /\ \E r \in {useAIService(pieces, isFirstAI, DEPTH)} :
           /\ DEPTH' = r.DEPTH
           /\ PLAYER_CURRENT' = r.PLAYER_CURRENT
           /\ PLAYER_OPPONENT' = r.PLAYER_OPPONENT
           /\ ret' = [op |-> "useAIService", row |-> r.row, col |-> r.col,
                      path |-> r.path, board |-> convertToBoard(pieces), depth |-> DEPTH]
    /\ calls' = calls + 1
    /\ UNCHANGED <<pieces, isFirstAI, depth0>>

InitPos ==
    /\ isFirstAI \in BOOLEAN
    /\ pieces \in Positions(1, MaxEmpty)
    /\ AITurn
    /\ DEPTH \in InitialDepth..MaxDepth
    /\ PLAYER_CURRENT = Unset
    /\ PLAYER_OPPONENT = Unset
    /\ ret = NoReturn
    /\ calls = DEPTH - InitialDepth
    /\ depth0 = 0

NextPos == CallUseAIService

SpecPos == InitPos /\ [][NextPos]_vars

----------------------------------------------------------------------------
(* minimax entered on a board, as useAIService (line 54) and minimax itself
   (lines 83 and 99) enter it: PLAYER_CURRENT and PLAYER_OPPONENT are set, the side
   to move is the one the markers on the board leave the move to *)

\* the AI is to move on board
AIToMove(board) == (CountMarker(board, "X") = CountMarker(board, "O")) = isFirstAI

CallMinimax(depth) ==
    /\ ret.op = "none"
    /\ \E r \in {minimax(convertToBoard(pieces), AIToMove(convertToBoard(pieces)),
                         -Infinity, Infinity, depth,
                         Globals(PLAYER_CURRENT, PLAYER_OPPONENT, DEPTH))} :
           ret' = [op |-> "minimax", row |-> r.row, col |-> r.col, score |-> r.score,
                   board |-> convertToBoard(pieces),
                   maximizingPlayer |-> AIToMove(convertToBoard(pieces)),
                   depth |-> depth]
    /\ UNCHANGED <<pieces, isFirstAI, DEPTH, PLAYER_CURRENT, PLAYER_OPPONENT, calls, depth0>>

InitMinimax ==
    /\ isFirstAI \in BOOLEAN
    /\ pieces \in Positions(0, MaxEmptyMM)
    /\ DEPTH \in {InitialDepth, InitialDepth + 1}
    /\ PLAYER_CURRENT = AIMarker
    /\ PLAYER_OPPONENT = OpponentMarker
    /\ ret = NoReturn
    /\ calls = DEPTH - InitialDepth
    /\ depth0 = DEPTH

NextMinimax == \E depth \in 0..DEPTH : CallMinimax(depth)

SpecMinimax == InitMinimax /\ [][NextMinimax]_vars

\* minimax entered on a board one player has completed a line on, as the recursion
\* enters it below a winning move (lines 83 and 99)
InitWon ==
    /\ isFirstAI \in BOOLEAN
    /\ pieces \in {p \in Positions(1, MaxEmptyWon) :
                     LineOf(convertToBoard(p), "X") # LineOf(convertToBoard(p), "O")}
    /\ DEPTH \in {InitialDepth, InitialDepth + 1}
    /\ PLAYER_CURRENT = AIMarker
    /\ PLAYER_OPPONENT = OpponentMarker
    /\ ret = NoReturn
    /\ calls = DEPTH - InitialDepth
    /\ depth0 = DEPTH

SpecWon == InitWon /\ [][NextMinimax]_vars

----------------------------------------------------------------------------
(* checkWinner called on a board *)

CallCheckWinner ==
    /\ ret.op = "none"
    /\ ret' = [op |-> "checkWinner", winner |-> checkWinner(convertToBoard(pieces)),
               board |-> convertToBoard(pieces)]
    /\ UNCHANGED <<pieces, isFirstAI, DEPTH, PLAYER_CURRENT, PLAYER_OPPONENT, calls, depth0>>

InitBoards ==
    /\ isFirstAI \in BOOLEAN
    /\ pieces \in Positions(0, 9)
    /\ DEPTH = InitialDepth
    /\ PLAYER_CURRENT = AIMarker
    /\ PLAYER_OPPONENT = OpponentMarker
    /\ ret = NoReturn
    /\ calls = 0
    /\ depth0 = 0

NextBoards == CallCheckWinner

SpecBoards == InitBoards /\ [][NextBoards]_vars

----------------------------------------------------------------------------
(* Claims *)

(* C1: in a game from the empty board that the opponent opens and whose first
   useAIService call sees a Session Depth Counter of at least 4, no reachable board
   holds a completed line of three opponent markers. *)
C1_NoOpponentLine ==
    (~isFirstAI /\ depth0 >= 4) => ~LineOf(convertToBoard(pieces), OpponentMarker)

\* such a game has ended with a line of three AI markers
C1_Witness ==
    /\ ~isFirstAI /\ depth0 >= 4
    /\ GameEnded(convertToBoard(pieces))
    /\ LineOf(convertToBoard(pieces), AIMarker)

\* such a game has ended in a draw: the board is full and holds no AI line
C1_WitnessDraw ==
    /\ ~isFirstAI /\ depth0 >= 4
    /\ GameEnded(convertToBoard(pieces))
    /\ ~LineOf(convertToBoard(pieces), AIMarker)

\* the empty cells of board at which marker completes a line of three
ImmediateWins(board, marker) ==
    {rc \in Idx \X Idx :
        /\ board[rc[1]][rc[2]] = EMPTY_CELL
        /\ \E i \in 1..Len(winningCombinations) :
              /\ \E k \in 1..3 : winningCombinations[i][k] = rc
              /\ \A k \in 1..3 :
                    \/ winningCombinations[i][k] = rc
                    \/ board[winningCombinations[i][k][1]][winningCombinations[i][k][2]]
                           = marker}

\* rc comes before every other cell of S in row-major order
FirstRowMajor(rc, S) ==
    /\ rc \in S
    /\ \A q \in S : rc[1] < q[1] \/ (rc[1] = q[1] /\ rc[2] <= q[2])

Returned == <<ret.row, ret.col>>

(* C2: on a position with at most 5 empty cells in which exactly one empty cell
   completes a line of three AI markers, useAIService returns exactly that cell,
   for every Session Depth Counter and either value of isFirstAI. *)
C2_ReturnsTheWinningCell ==
    (/\ ret.op = "useAIService"
     /\ CountMarker(ret.board, EMPTY_CELL) <= 5
     /\ Cardinality(ImmediateWins(ret.board, AIMarker)) = 1)
    => Returned \in ImmediateWins(ret.board, AIMarker)

\* the scenario of the specification: X at (0,0),(0,1), O at (1,0),(1,1), the AI
\* plays X and has returned (0,2)
C2_Witness ==
    /\ ret.op = "useAIService"
    /\ isFirstAI
    /\ ret.board = RowOf(RowOf("X", "X", "-"), RowOf("O", "O", "-"), RowOf("-", "-", "-"))
    /\ ImmediateWins(ret.board, AIMarker) = {<<0, 2>>}
    /\ Returned = <<0, 2>>

(* C3 as stated: on every position with at least one empty cell, completed lines
   included, and every Session Depth Counter >= 2, useAIService returns a move
   whose row and col are both defined. *)
C3_Original ==
    ret.op = "useAIService" => (ret.row # Undefined /\ ret.col # Undefined)

(* C3 as amended: on every position with at least one empty cell and no completed
   line of three X or three O, and every Session Depth Counter >= 2, useAIService
   returns a move whose row and col are both defined. *)
C3_DefinedWithoutLine ==
    (/\ ret.op = "useAIService"
     /\ ~LineOf(ret.board, "X")
     /\ ~LineOf(ret.board, "O"))
    => (ret.row \in Idx /\ ret.col \in Idx)

\* a position without a line has been answered by the search
C3_Witness ==
    /\ ret.op = "useAIService"
    /\ ret.path = "minimax"
    /\ ~LineOf(ret.board, "X") /\ ~LineOf(ret.board, "O")
    /\ CountMarker(ret.board, EMPTY_CELL) >= 2
    /\ ret.row \in Idx /\ ret.col \in Idx

(* C4: if some triple holds the same marker X or O on all three cells and no
   triple is completed by the other marker, checkWinner returns that marker,
   whatever the other cells hold; if no triple is completed by a marker,
   checkWinner returns the empty sentinel. *)
C4_CheckWinnerFindsTheLine ==
    ret.op = "checkWinner" =>
        /\ (LineOf(ret.board, "X") /\ ~LineOf(ret.board, "O")) => ret.winner = "X"
        /\ (LineOf(ret.board, "O") /\ ~LineOf(ret.board, "X")) => ret.winner = "O"
        /\ (~LineOf(ret.board, "X") /\ ~LineOf(ret.board, "O"))
               => ret.winner = EMPTY_CELL

(* C5: the Session Depth Counter starts at 2 and every completed call of
   useAIService increases it by exactly 1, on the short-circuit path as on the
   search path: after n completed calls it equals 2 + n. *)
C5_DepthCountsCalls == DEPTH = 2 + calls

\* the unpruned search: the enumeration order, the strict-improvement tie-break and
\* the base case of minimax, without the break on alpha >= beta
RECURSIVE fullSearch(_, _, _, _)
RECURSIVE fullLoop(_, _, _, _, _, _, _)
fullLoop(board, maximizingPlayer, emptyCells, i, depth, bestMove, G) ==
    IF i > Len(emptyCells) THEN bestMove
    ELSE
        LET row == emptyCells[i].row
            col == emptyCells[i].col
            marker == IF maximizingPlayer THEN G.PLAYER_CURRENT ELSE G.PLAYER_OPPONENT
            result == fullSearch(SetCell(board, row, col, marker), ~maximizingPlayer,
                                 depth - 1, G)
            currentMoce == [row |-> row, col |-> col, score |-> result.score]
            better == IF maximizingPlayer THEN currentMoce.score > bestMove.score
                      ELSE currentMoce.score < bestMove.score
        IN  fullLoop(board, maximizingPlayer, emptyCells, i + 1, depth,
                     IF better THEN currentMoce ELSE bestMove, G)

fullSearch(board, maximizingPlayer, depth, G) ==
    LET emptyCells == getAvailableBoards(board)
    IN  IF depth = 0 \/ checkWinner(board) # EMPTY_CELL \/ Len(emptyCells) = 0
        THEN [row |-> Undefined, col |-> Undefined, score |-> evaluateBoard(board, G)]
        ELSE fullLoop(board, maximizingPlayer, emptyCells, 1, depth,
                      [row |-> Undefined, col |-> Undefined,
                       score |-> IF maximizingPlayer THEN -Infinity ELSE Infinity],
                      G)

CurrentGlobals == Globals(PLAYER_CURRENT, PLAYER_OPPONENT, DEPTH)

(* C6: minimax called with maximizing = true, alpha = -infinity and
   beta = +infinity returns the row, col and score of the unpruned search, for every
   board, search depth and Session Depth Counter. *)
C6_PruningChangesNothing ==
    (ret.op = "minimax" /\ ret.maximizingPlayer)
    => [row |-> ret.row, col |-> ret.col, score |-> ret.score]
           = fullSearch(ret.board, TRUE, ret.depth, CurrentGlobals)

\* a search in which the loop over the second and third cell broke off: on this
\* board the pruned search enters 6 positions, the unpruned one 8
C6_Witness ==
    /\ ret.op = "minimax" /\ ret.maximizingPlayer
    /\ ret.depth = 2 /\ DEPTH = 2
    /\ ret.board = RowOf(RowOf("-", "-", "-"), RowOf("X", "X", "O"), RowOf("O", "O", "X"))
    /\ Returned = <<0, 0>> /\ ret.score = 1163

(* C7 as stated, read on the positions of a game still in progress (no completed
   line): on a position with at most 5 empty cells in which at least one empty cell
   gives the AI an immediate win, the cell the short-circuit returns is the cell
   minimax returns on that board with the current counter as depth. *)
C7_Original ==
    (/\ ret.op = "useAIService" /\ ret.path = "shortcircuit"
     /\ ~LineOf(ret.board, "X") /\ ~LineOf(ret.board, "O"))
    => LET m == minimax(ret.board, TRUE, -Infinity, Infinity, DEPTH, CurrentGlobals)
       IN  Returned = <<m.row, m.col>>

(* C7 as amended: on a position with at most 5 empty cells in which at least one
   empty cell gives the AI an immediate win, useAIService returns, by its
   short-circuit, the first immediately winning empty cell in row-major order,
   for every Session Depth Counter. *)
C7_ShortCircuitFirstWinningCell ==
    (/\ ret.op = "useAIService"
     /\ CountMarker(ret.board, EMPTY_CELL) <= 5
     /\ ImmediateWins(ret.board, AIMarker) # {})
    => (/\ ret.path = "shortcircuit"
        /\ FirstRowMajor(Returned, ImmediateWins(ret.board, AIMarker)))

\* the short-circuit has chosen among several winning cells
C7_Witness ==
    /\ ret.op = "useAIService"
    /\ ret.path = "shortcircuit"
    /\ Cardinality(ImmediateWins(ret.board, AIMarker)) >= 2
    /\ FirstRowMajor(Returned, ImmediateWins(ret.board, AIMarker))

\* the score the unpruned search gives the i-th empty cell of the board minimax
\* was entered on
ChildScore(i) ==
    LET cells == getAvailableBoards(ret.board)
        marker == IF ret.maximizingPlayer THEN PLAYER_CURRENT ELSE PLAYER_OPPONENT
    IN  fullSearch(SetCell(ret.board, cells[i].row, cells[i].col, marker),
                   ~ret.maximizingPlayer, ret.depth - 1, CurrentGlobals).score

\* the cells of the board minimax was entered on whose score is the best one: the
\* maximum when the AI moves, the minimum when the opponent moves
BestCells ==
    LET cells == getAvailableBoards(ret.board)
        scored == {<<i, ChildScore(i)>> : i \in 1..Len(cells)}
        best == {p \in scored : \A q \in scored :
                    IF ret.maximizingPlayer THEN q[2] <= p[2] ELSE q[2] >= p[2]}
    IN  {<<cells[p[1]].row, cells[p[1]].col>> : p \in best}

NotBaseCase ==
    /\ ret.depth # 0
    /\ checkWinner(ret.board) = EMPTY_CELL
    /\ Len(getAvailableBoards(ret.board)) # 0

(* C8: where minimax is not at its base case and several empty cells yield the
   same best score (the maximum for the AI, the minimum for the opponent), minimax
   returns the one that comes first in row-major order, top row first and left to
   right. *)
C8_FirstOfTheBest ==
    (ret.op = "minimax" /\ NotBaseCase) => FirstRowMajor(Returned, BestCells)

\* several cells share the best score and minimax has returned the first of them
C8_Witness ==
    /\ ret.op = "minimax" /\ NotBaseCase
    /\ Cardinality(BestCells) >= 2
    /\ FirstRowMajor(Returned, BestCells)

(* C9: minimax entered on a board that holds a completed line of three X or three
   O returns the static evaluation of that board with no row and no col. *)
C9_LineIsTerminal ==
    (ret.op = "minimax" /\ (LineOf(ret.board, "X") \/ LineOf(ret.board, "O")))
    => (/\ ret.row = Undefined
        /\ ret.col = Undefined
        /\ ret.score = evaluateBoard(ret.board, CurrentGlobals))

(* C10: a move useAIService returns with row and col defined lies in
   [0,2] x [0,2] and is empty in the input position, on both paths. *)
C10_ReturnsAnEmptyCell ==
    (ret.op = "useAIService" /\ ret.row # Undefined /\ ret.col # Undefined)
    => (/\ ret.row \in Idx
        /\ ret.col \in Idx
        /\ \A p \in pieces : p.direction # Returned)

\* both paths have returned a cell
C10_Witness ==
    /\ ret.op = "useAIService"
    /\ ret.path = "minimax"
    /\ ret.row \in Idx /\ ret.col \in Idx
    /\ \A p \in pieces : p.direction # Returned
    /\ Cardinality(pieces) >= 4

====
